---- MODULE Spec2Model ----
(***************************************************************************)
(* Model of compare_pandas_vs_spark.py: the straight-line benchmark        *)
(* main() that runs the "mean fare by pickup hour" query with pandas and   *)
(* with Spark, first on a 10% sample and then on the full dataset.         *)
(*                                                                         *)
(* A row of the dataset is [ts, fare]; ts is a pickup timestamp in seconds *)
(* and fare an integer amount; either may be NULL.  An average is kept as  *)
(* the exact pair [sum, n] (n = 0 is the NaN / null average), so floating  *)
(* point rounding is not modelled.                                         *)
(***************************************************************************)
EXTENDS Integers, Sequences, FiniteSets

\* ------------------------------------------------------------------ bounds
MaxRows == 2
MaxTsIdx == 1
MaxFare == 2

\* A missing value (NaT / NaN in pandas, null in Spark).  It is smaller than
\* every timestamp, hour and fare of the model.
NULL == 0 - 1

Timestamps == {k * 82800 : k \in 0..MaxTsIdx}
Fares == 1..MaxFare
Rows == [ts : Timestamps \cup {NULL}, fare : Fares \cup {NULL}]
Tables == UNION {[1..n -> Rows] : n \in 0..MaxRows}

\* ------------------------------------------------------------ the program
VARIABLES
    file,        \* state of data/yellow_tripdata_2024-01.parquet
    table,       \* the rows stored in the file
    pc,          \* position of main()
    cell,        \* index into Matrix of the cell main() is in
    df,          \* df[c]: the DataFrame loaded for cell c
    hourly,      \* hourly[c]: hourly_fares computed for cell c
    events,      \* history: [engine, frac, phase] of every phase that completed
    charts,      \* chart files present in Analysis_output
    active,      \* live SparkSessions (ids)
    created,     \* number of SparkSessions ever created
    spark,       \* main()'s variable `spark` (0: unbound)
    sessionOf,   \* history: the session each cell was handed (0: none)
    stopCalls,   \* history: sequence of session ids spark.stop() was called on
    stdout,      \* what was printed
    error        \* the step whose exception ended main() ("none": none)

vars == <<file, table, pc, cell, df, hourly, events, charts, active, created,
          spark, sessionOf, stopCalls, stdout, error>>

\* The four cells ordered engine by engine: what main() would run if it
\* finished one engine before starting the other.
MatrixByEngine ==
    << [engine |-> "pandas", frac |-> "small"],
       [engine |-> "pandas", frac |-> "full"],
       [engine |-> "spark",  frac |-> "small"],
       [engine |-> "spark",  frac |-> "full"] >>

\* The four (engine, sample fraction) cells in the order main() runs them.
Matrix ==
    << [engine |-> "pandas", frac |-> "small"],
       [engine |-> "spark",  frac |-> "small"],
       [engine |-> "pandas", frac |-> "full"],
       [engine |-> "spark",  frac |-> "full"] >>

Cells == DOMAIN Matrix

\* sample_fraction=0.1 / sample_ratio=0.1
FracNum == 1
FracDen == 10

\* ------------------------------------------------------------- sampling
\* The subsequence of s at the indices in S.
RECURSIVE SelectIdx(_, _, _)
SelectIdx(s, S, i) ==
    IF i > Len(s) THEN <<>>
    ELSE (IF i \in S THEN <<s[i]>> ELSE <<>>) \o SelectIdx(s, S, i + 1)

\* round(frac * n) as Python rounds: half to even.
SampleSize(n) ==
    LET q == (n * FracNum) \div FracDen
        r == (n * FracNum) % FracDen
    IN  IF 2 * r > FracDen THEN q + 1
        ELSE IF 2 * r < FracDen THEN q
        ELSE IF q % 2 = 0 THEN q ELSE q + 1

\* df.sample(frac=...): exactly round(frac * len) rows, without replacement.
PandasSamples(t) ==
    {SelectIdx(t, S, 1) : S \in {X \in SUBSET (1..Len(t)) : Cardinality(X) = SampleSize(Len(t))}}

\* df.sample(ratio): every row is kept independently, so any subset can result.
SparkSamples(t) ==
    {SelectIdx(t, S, 1) : S \in SUBSET (1..Len(t))}

\* ---------------------------------------------------------- the recipe
\* pd.to_datetime(...).dt.hour and pyspark.sql.functions.hour: the hour of
\* day of a timestamp; a missing timestamp has a missing hour.
Hour(ts) == IF ts = NULL THEN NULL ELSE (ts \div 3600) % 24

RECURSIVE SumFares(_, _)
SumFares(d, idx) ==
    IF idx = {} THEN 0
    ELSE LET i == CHOOSE x \in idx : TRUE
         IN  d[i].fare + SumFares(d, idx \ {i})

\* mean() / avg() of fare_amount over the rows of hour h: both engines skip
\* missing fares; with no fare left the average is itself missing (n = 0).
GroupMean(d, h) ==
    LET idx == {i \in DOMAIN d : Hour(d[i].ts) = h /\ d[i].fare # NULL}
    IN  [sum |-> SumFares(d, idx), n |-> Cardinality(idx)]

\* The elements of a set of integers in ascending order (NULL comes first).
RECURSIVE SortedSeq(_)
SortedSeq(S) ==
    IF S = {} THEN <<>>
    ELSE LET m == CHOOSE x \in S : \A y \in S : x <= y
         IN  <<m>> \o SortedSeq(S \ {m})

\* df.groupby('hour'): dropna=True is the default, so rows whose hour is
\* missing belong to no group; sort=True orders the groups by key.
PandasGroupKeys(d) == {Hour(d[i].ts) : i \in DOMAIN d} \ {NULL}

\* df.groupBy('hour'): null is a group key like any other.
SparkGroupKeys(d) == {Hour(d[i].ts) : i \in DOMAIN d}

HourlyFares(d, keys) ==
    LET ks == SortedSeq(keys)
    IN  [i \in 1..Len(ks) |-> [hour |-> ks[i], avg |-> GroupMean(d, ks[i])]]

\* analyze_pandas: df.groupby('hour')['fare_amount'].mean().reset_index()
PandasHourlyFares(d) == HourlyFares(d, PandasGroupKeys(d))

\* analyze_spark: groupBy('hour').agg(avg('fare_amount')).orderBy('hour');
\* ascending order puts the null key first.
SparkHourlyFares(d) == HourlyFares(d, SparkGroupKeys(d))

\* -------------------------------------------------------------- helpers
\* pd.read_parquet raises unless the file exists and is a readable parquet
\* file; a readable file with zero rows loads as an empty DataFrame.
ReadParquetOk(f) == f = "ok"

\* A builder that builds a new session on every call.
GetOrCreateNew(act, n) == n + 1

\* SparkSession.builder.getOrCreate(): the live session when there is one,
\* otherwise a new one.  Returns the id of the session.

GetOrCreate(act, n) ==
    IF act # {} THEN CHOOSE s \in act : TRUE ELSE n + 1

NoError == [cell |-> 0, phase |-> "none"]

\* The record of a phase of cell c that completed.
Event(c, phase) ==
    [engine |-> Matrix[c].engine, frac |-> Matrix[c].frac, phase |-> phase]

\* The prints of main() that precede the load of cell c.
Headers(c) ==
    (IF c = 1 THEN <<"Analyzing small dataset:">>
     ELSE IF c = 3 THEN <<"Analyzing full dataset:">> ELSE <<>>)
    \o (IF Matrix[c].engine = "pandas" THEN <<"Pandas:">> ELSE <<"Spark:">>)

\* main() after the analyze call of the current cell returned.
Advance ==
    IF cell < Len(Matrix) THEN pc' = "load" /\ cell' = cell + 1
    ELSE pc' = "stop" /\ cell' = cell

\* An exception leaves main(): nothing after it runs.
Raise(phase) ==
    /\ pc' = "failed"
    /\ error' = [cell |-> cell, phase |-> phase]
    /\ cell' = cell

\* ----------------------------------------------------------------- Init
Init ==
    /\ file \in {"ok", "missing", "unreadable"}
    /\ table \in (IF file = "ok" THEN Tables ELSE {<<>>})
    /\ pc = "makedirs"
    /\ cell = 1
    /\ df = [c \in Cells |-> <<>>]
    /\ hourly = [c \in Cells |-> <<>>]
    /\ events = <<>>
    /\ charts = {}
    /\ active = {}
    /\ created = 0
    /\ spark = 0
    /\ sessionOf = [c \in Cells |-> 0]
    /\ stopCalls = <<>>
    /\ stdout = <<>>
    /\ error = NoError

\* -------------------------------------------------------------- actions
\* line 86
MakeDirs ==
    /\ pc = "makedirs"
    /\ pc' = "load"
    /\ UNCHANGED <<file, table, cell, df, hourly, events, charts, active,
                   created, spark, sessionOf, stopCalls, stdout, error>>

\* load_data_pandas returns (lines 92, 103)
LoadPandasOk ==
    /\ pc = "load"
    /\ Matrix[cell].engine = "pandas"
    /\ ReadParquetOk(file)
    /\ \E s \in (IF Matrix[cell].frac = "small" THEN PandasSamples(table) ELSE {table}) :
          df' = [df EXCEPT ![cell] = s]
    /\ events' = Append(events, Event(cell, "load"))
    /\ stdout' = stdout \o Headers(cell) \o <<"Pandas loading time">>
    /\ pc' = "analyze"
    /\ UNCHANGED <<file, table, cell, hourly, charts, active, created, spark,
                   sessionOf, stopCalls, error>>

\* pd.read_parquet raises (line 18)
LoadPandasFail ==
    /\ pc = "load"
    /\ Matrix[cell].engine = "pandas"
    /\ ~ReadParquetOk(file)
    /\ stdout' = stdout \o Headers(cell)
    /\ Raise("load")
    /\ UNCHANGED <<file, table, df, hourly, events, charts, active, created,
                   spark, sessionOf, stopCalls>>

\* analyze_pandas returns (lines 93, 104)
AnalyzePandasOk ==
    /\ pc = "analyze"
    /\ Matrix[cell].engine = "pandas"
    /\ hourly' = [hourly EXCEPT ![cell] = PandasHourlyFares(df[cell])]
    /\ events' = events \o <<Event(cell, "aggregate"), Event(cell, "write")>>
    /\ charts' = charts \cup {<<"pandas", Len(df[cell])>>}
    /\ stdout' = Append(stdout, "Pandas analysis time")
    /\ Advance
    /\ UNCHANGED <<file, table, df, active, created, spark, sessionOf,
                   stopCalls, error>>

\* fig.write_html raises in analyze_pandas (line 52)
AnalyzePandasWriteFail ==
    /\ pc = "analyze"
    /\ Matrix[cell].engine = "pandas"
    /\ hourly' = [hourly EXCEPT ![cell] = PandasHourlyFares(df[cell])]
    /\ events' = Append(events, Event(cell, "aggregate"))
    /\ Raise("write")
    /\ UNCHANGED <<file, table, df, charts, active, created, spark, sessionOf,
                   stopCalls, stdout>>

\* load_data_spark returns (lines 96, 107).  The DataFrame is lazy; its
\* sample is fixed by the seed drawn when sample() is called.
LoadSparkOk ==
    /\ pc = "load"
    /\ Matrix[cell].engine = "spark"
    /\ LET sid == GetOrCreate(active, created)
       IN  /\ active' = active \cup {sid}
           /\ created' = IF sid \in active THEN created ELSE created + 1
           /\ spark' = sid
           /\ sessionOf' = [sessionOf EXCEPT ![cell] = sid]
    /\ \E s \in (IF Matrix[cell].frac = "small" THEN SparkSamples(table) ELSE {table}) :
          df' = [df EXCEPT ![cell] = s]
    /\ events' = Append(events, Event(cell, "load"))
    /\ stdout' = stdout \o Headers(cell) \o <<"Spark loading time">>
    /\ pc' = "analyze"
    /\ UNCHANGED <<file, table, cell, hourly, charts, stopCalls, error>>

\* getOrCreate raises: no session can be created (line 30).  With a live
\* session getOrCreate returns it and cannot fail.
LoadSparkOpenFail ==
    /\ pc = "load"
    /\ Matrix[cell].engine = "spark"
    /\ active = {}
    /\ stdout' = stdout \o Headers(cell)
    /\ Raise("open")
    /\ UNCHANGED <<file, table, df, hourly, events, charts, active, created,
                   spark, sessionOf, stopCalls>>

\* spark.read.parquet raises after the session was obtained (line 32)
LoadSparkReadFail ==
    /\ pc = "load"
    /\ Matrix[cell].engine = "spark"
    /\ LET sid == GetOrCreate(active, created)
       IN  /\ active' = active \cup {sid}
           /\ created' = IF sid \in active THEN created ELSE created + 1
    /\ stdout' = stdout \o Headers(cell)
    /\ Raise("load")
    /\ UNCHANGED <<file, table, df, hourly, events, charts, spark, sessionOf,
                   stopCalls>>

\* analyze_spark returns (lines 97, 108)
AnalyzeSparkOk ==
    /\ pc = "analyze"
    /\ Matrix[cell].engine = "spark"
    /\ hourly' = [hourly EXCEPT ![cell] = SparkHourlyFares(df[cell])]
    /\ events' = events \o <<Event(cell, "aggregate"), Event(cell, "write")>>
    /\ charts' = charts \cup {<<"spark", Len(df[cell])>>}
    /\ stdout' = Append(stdout, "Spark analysis time")
    /\ Advance
    /\ UNCHANGED <<file, table, df, active, created, spark, sessionOf,
                   stopCalls, error>>

\* the Spark job behind toPandas() fails (line 71)
AnalyzeSparkJobFail ==
    /\ pc = "analyze"
    /\ Matrix[cell].engine = "spark"
    /\ Raise("aggregate")
    /\ UNCHANGED <<file, table, df, hourly, events, charts, active, created,
                   spark, sessionOf, stopCalls, stdout>>

\* df.count() or fig.write_html raises in analyze_spark (line 75)
AnalyzeSparkWriteFail ==
    /\ pc = "analyze"
    /\ Matrix[cell].engine = "spark"
    /\ hourly' = [hourly EXCEPT ![cell] = SparkHourlyFares(df[cell])]
    /\ events' = Append(events, Event(cell, "aggregate"))
    /\ Raise("write")
    /\ UNCHANGED <<file, table, df, charts, active, created, spark, sessionOf,
                   stopCalls, stdout>>

\* spark.stop() (line 111)
StopSpark ==
    /\ pc = "stop"
    /\ stopCalls' = Append(stopCalls, spark)
    /\ active' = active \ {spark}
    /\ pc' = "done"
    /\ UNCHANGED <<file, table, cell, df, hourly, events, charts, created,
                   spark, sessionOf, stdout, error>>

Next ==
    \/ MakeDirs
    \/ LoadPandasOk
    \/ LoadPandasFail
    \/ AnalyzePandasOk
    \/ AnalyzePandasWriteFail
    \/ LoadSparkOk
    \/ LoadSparkOpenFail
    \/ LoadSparkReadFail
    \/ AnalyzeSparkOk
    \/ AnalyzeSparkJobFail
    \/ AnalyzeSparkWriteFail
    \/ StopSpark

Spec == Init /\ [][Next]_vars

\* ------------------------------------------------------------- the claims
RunEnded == pc \in {"done", "failed"}

PhaseDone(c, phase) == \E i \in DOMAIN events : events[i] = Event(c, phase)

\* Cell c ran: its load and its aggregate completed.
CellRan(c) == PhaseDone(c, "load") /\ PhaseDone(c, "aggregate")

CellsOf(engine) == {c \in Cells : Matrix[c].engine = engine}

CellOf(engine, frac) ==
    CHOOSE c \in Cells : Matrix[c] = [engine |-> engine, frac |-> frac]

HoursIn(result) == {result[i].hour : i \in DOMAIN result}

\* Two averages are the same number (or are both missing).
AvgEq(a, b) == (a.n = 0 <=> b.n = 0) /\ a.sum * b.n = b.sum * a.n

\* The cross-engine check: the same hours and, hour by hour, the same average.
Consistent(r1, r2) ==
    /\ HoursIn(r1) = HoursIn(r2)
    /\ \A i \in DOMAIN r1 : \A j \in DOMAIN r2 :
          r1[i].hour = r2[j].hour => AvgEq(r1[i].avg, r2[j].avg)

\* C1: in every run in which a Spark session was opened, spark.stop() has
\* been called exactly once when the run has ended, whether the run ended
\* normally or with the failure of some cell.
C1_SessionClosedExactlyOnce ==
    (RunEnded /\ created > 0) => Len(stopCalls) = 1

\* C2: when the load or the aggregate of a cell has failed (the dataset file
\* itself being readable), the run still ends normally and every later cell
\* of the matrix has run.
C2_CellFailureDoesNotAbort ==
    (RunEnded /\ file = "ok" /\ error.phase \in {"load", "aggregate"}) =>
        /\ pc = "done"
        /\ \A c \in Cells : c > error.cell => CellRan(c)

\* C3: when the Spark session cannot be opened, the run has not aborted when
\* it ends: both pandas cells (0.1 and full) completed load and aggregate.
C3_OpenFailureKeepsLocalCells ==
    (RunEnded /\ error.phase = "open") =>
        \A c \in CellsOf("pandas") : CellRan(c)

\* C4: when the full matrix has been run, for every sample fraction whose
\* pandas and Spark cells both succeeded, a mismatch of the two results has
\* been reported as a consistency violation.
C4_MismatchReported ==
    pc = "done" =>
        \A frac \in {"small", "full"} :
            LET p == CellOf("pandas", frac)
                k == CellOf("spark", frac)
            IN  (/\ PhaseDone(p, "write")
                 /\ PhaseDone(k, "write")
                 /\ ~Consistent(hourly[p], hourly[k]))
                => \E i \in DOMAIN stdout : stdout[i] = "ConsistencyViolation"

\* C5: once both engines have aggregated the same unsampled table, the two
\* results have the same hour keys and, hour by hour, equal average fares,
\* also when pickup timestamps or fares are missing.
C5_EnginesAgreeOnFullTable ==
    LET p == CellOf("pandas", "full")
        k == CellOf("spark", "full")
    IN  (PhaseDone(p, "aggregate") /\ PhaseDone(k, "aggregate"))
            => Consistent(hourly[p], hourly[k])

\* The twelve phases of a complete run in the declared matrix order.
DeclaredOrder ==
    << [engine |-> "pandas", frac |-> "small", phase |-> "load"],
       [engine |-> "pandas", frac |-> "small", phase |-> "aggregate"],
       [engine |-> "pandas", frac |-> "small", phase |-> "write"],
       [engine |-> "spark",  frac |-> "small", phase |-> "load"],
       [engine |-> "spark",  frac |-> "small", phase |-> "aggregate"],
       [engine |-> "spark",  frac |-> "small", phase |-> "write"],
       [engine |-> "pandas", frac |-> "full",  phase |-> "load"],
       [engine |-> "pandas", frac |-> "full",  phase |-> "aggregate"],
       [engine |-> "pandas", frac |-> "full",  phase |-> "write"],
       [engine |-> "spark",  frac |-> "full",  phase |-> "load"],
       [engine |-> "spark",  frac |-> "full",  phase |-> "aggregate"],
       [engine |-> "spark",  frac |-> "full",  phase |-> "write"] >>

\* C6: the phases that have completed are, at every point of every run, an
\* initial part of the declared order (0.1: pandas then Spark; full: pandas
\* then Spark; in each cell load, then aggregate, then the chart), so no step
\* of one cell falls between the load and the aggregate of another; and the
\* aggregate of a cell starts only when the last completed phase is a load.
C6_DeclaredOrder ==
    /\ Len(events) <= Len(DeclaredOrder)
    /\ \A i \in DOMAIN events : events[i] = DeclaredOrder[i]
    /\ pc = "analyze" => (events # <<>> /\ events[Len(events)].phase = "load")

C6_Witness ==
    pc = "done" /\ events = DeclaredOrder

\* C7: at every point of the run at most one Spark session exists and at
\* most one was ever created; every Spark cell was handed the same session;
\* and the session that spark.stop() is called on is that session.
C7_OneSharedSession ==
    /\ Cardinality(active) <= 1
    /\ created <= 1
    /\ \A c \in CellsOf("spark") : \A e \in CellsOf("spark") :
          (sessionOf[c] # 0 /\ sessionOf[e] # 0) => sessionOf[c] = sessionOf[e]
    /\ \A i \in DOMAIN stopCalls : \A c \in CellsOf("spark") :
          stopCalls[i] = sessionOf[c]

C7_Witness ==
    /\ pc = "done"
    /\ sessionOf[CellOf("spark", "small")] # 0
    /\ sessionOf[CellOf("spark", "full")] = sessionOf[CellOf("spark", "small")]
    /\ stopCalls = <<sessionOf[CellOf("spark", "full")]>>
    /\ active = {}

\* C8: when the dataset file is missing, unreadable or has zero rows, no
\* aggregate is ever executed and no chart is ever written, and the run ends
\* with the failure of the read.
C8_BadSourceIsFatal ==
    (file # "ok" \/ table = <<>>) =>
        /\ \A i \in DOMAIN events : events[i].phase = "load"
        /\ charts = {}
        /\ RunEnded => (pc = "failed" /\ error.phase = "load")

\* C9: when the write of a cell's chart has failed, every later cell of the
\* matrix has run by the end of the run.
C9_WriteFailureDoesNotAbort ==
    (RunEnded /\ error.phase = "write") =>
        \A c \in Cells : c > error.cell => CellRan(c)

\* The hour keys of a result are strictly ascending.
StrictlyAscending(result) ==
    \A i \in DOMAIN result : \A j \in DOMAIN result :
        i < j => result[i].hour < result[j].hour

\* C10: the result of every aggregate has one entry per pickup hour present
\* in the loaded table, each hour an integer in 0..23, strictly ascending,
\* and each value the mean of the fares of exactly the rows of that hour.
C10_ResultShape ==
    \A c \in Cells : PhaseDone(c, "aggregate") =>
        LET r == hourly[c]
            d == df[c]
        IN  /\ \A i \in DOMAIN r : r[i].hour \in 0..23
            /\ StrictlyAscending(r)
            /\ HoursIn(r) = {(d[j].ts \div 3600) % 24 : j \in {x \in DOMAIN d : d[x].ts # NULL}}
            /\ \A i \in DOMAIN r :
                  LET idx == {j \in DOMAIN d : d[j].ts # NULL
                                 /\ (d[j].ts \div 3600) % 24 = r[i].hour
                                 /\ d[j].fare # NULL}
                  IN  r[i].avg = [sum |-> SumFares(d, idx), n |-> Cardinality(idx)]

====
